---- MODULE Spec2Model ----
(***************************************************************************)
(* Simple Big 2: Card, Deck, Player and the SimpleBig2 round coordinator of *)
(* src/game.py and the handlers of src/app.py, as a state machine.          *)
(*                                                                          *)
(* Optional values (Python's None) are sequences of length at most one:     *)
(* None is <<>> and a present value x is <<x>>.  A player's hand is an      *)
(* optional Deck, so "no Deck" (<<>>) and "an empty Deck" (<< <<>> >>) are  *)
(* different values, as they are in the code.                               *)
(***************************************************************************)
EXTENDS Integers, Sequences, FiniteSets, TLC

\* ------------------------------------------------------------------ bounds
\* The deck is the first NumRanks ranks by the first NumSuits suits, the
\* roster the first NumPlayers names, and a hand MAX_CARDS_PER_PLAYER cards
\* (the program: 13 ranks, 4 suits, 4 players, 12 cards).
NumRanks == 3
NumSuits == 2
NumPlayers == 2
MAX_CARDS_PER_PLAYER == 2
\* Longest deck the Deck.draw specification starts from.
MaxDeckLen == 3
\* The counters of a start() run stop counting here.
CounterCap == 12

\* ------------------------------------------------------------------ values
None == <<>>
Some(x) == <<x>>

\* The suits are written d, c, h, s for the code's diamond, club, heart, spade.
RANKS == SubSeq(<<"3", "4", "5", "6", "7", "8", "9", "10", "J", "Q", "K", "A", "2">>, 1, NumRanks)
SUITS == SubSeq(<<"d", "c", "h", "s">>, 1, NumSuits)

\* list.index: the 0-based position of the first occurrence
Index(seq, x) == (CHOOSE i \in 1..Len(seq) : seq[i] = x /\ \A j \in 1..(i - 1) : seq[j] # x) - 1

\* Mutant of Card: the ordinal is the sum of the rank's and the suit's index
Card_Sum(r, s) == [sort_index |-> Index(RANKS, r) + Index(SUITS, s), rank |-> r, suit |-> s]

\* Card(rank, suit) with __post_init__'s sort_index
Card(r, s) == [sort_index |-> Index(RANKS, r) * Len(SUITS) + Index(SUITS, s), rank |-> r, suit |-> s]

\* dataclass(order=True): cards compare by sort_index first; rank and suit
\* only break ties, and no two cards of a deck share a sort_index.
CardLess(a, b) == a.sort_index < b.sort_index

\* Deck(): one card per rank and suit, ranks in the outer loop
NewDeck == [i \in 1..(Len(RANKS) * Len(SUITS)) |-> Card(RANKS[((i - 1) \div Len(SUITS)) + 1], SUITS[((i - 1) % Len(SUITS)) + 1])]

\* the literal 52 of deal_cards: the size of the full deck
FULL_DECK_SIZE == Len(NewDeck)

Names == SubSeq(<<"Adam", "Ben", "Charlie", "Derek">>, 1, NumPlayers)

Min(S) == CHOOSE x \in S : \A y \in S : x <= y

\* ------------------------------------------------------------------ Deck
\* random.shuffle: the cards in the order a permutation f of their positions
\* gives; every permutation is a possible outcome
Shuffle(cards, f) == SubSeq([i \in 1..Len(cards) |-> cards[f[i]]], 1, Len(cards))

\* Mutant of Order: the hand is left in the order it was drawn
Order_Unsorted(cards) == cards

\* Deck.order: list.sort with the cards' own ordering
Order(cards) == SortSeq(cards, CardLess)

\* Mutant of Draw: no check of the size, the slices alone
Draw_NoCheck(cards, number) ==
    [err |-> "ok", drawn |-> SubSeq(cards, 1, IF number > Len(cards) THEN Len(cards) ELSE number),
     cards |-> SubSeq(cards, number + 1, Len(cards))]

\* Mutant of Draw: the size check is off by one
Draw_OffByOne(cards, number) ==
    IF number >= Len(cards)
    THEN [err |-> "ValueError", drawn |-> <<>>, cards |-> cards]
    ELSE [err |-> "ok", drawn |-> SubSeq(cards, 1, number),
          cards |-> SubSeq(cards, number + 1, Len(cards))]

\* Deck.draw: the first number cards, or ValueError and no change
Draw(cards, number) ==
    IF number > Len(cards)
    THEN [err |-> "ValueError", drawn |-> <<>>, cards |-> cards]
    ELSE [err |-> "ok", drawn |-> SubSeq(cards, 1, number),
          cards |-> SubSeq(cards, number + 1, Len(cards))]

\* Mutant of FirstAbove: a card equal to card_index is taken too
RECURSIVE FirstAbove_AtLeast(_, _, _)
FirstAbove_AtLeast(sorted, card_index, i) ==
    IF i > Len(sorted) THEN None
    ELSE IF sorted[i].sort_index >= card_index THEN Some(sorted[i])
    ELSE FirstAbove_AtLeast(sorted, card_index, i + 1)

\* The loop of get_smallest_card over the sorted cards, from position i on
RECURSIVE FirstAbove(_, _, _)
FirstAbove(sorted, card_index, i) ==
    IF i > Len(sorted) THEN None
    ELSE IF sorted[i].sort_index > card_index THEN Some(sorted[i])
    ELSE FirstAbove(sorted, card_index, i + 1)

\* Mutant of GetSmallestCard: the cards are looked through in descending order
GetSmallestCard_Descending(cards, card_index) ==
    FirstAbove(SortSeq(cards, LAMBDA a, b : a.sort_index > b.sort_index), card_index, 1)

\* Deck.get_smallest_card: the first card, in ascending sort_index order,
\* whose sort_index is greater than card_index
GetSmallestCard(cards, card_index) ==
    FirstAbove(SortSeq(cards, LAMBDA a, b : a.sort_index < b.sort_index), card_index, 1)

\* list.remove: the list without the first occurrence of card
Remove(cards, card) ==
    LET k == Index(cards, card) + 1
    IN  SubSeq(cards, 1, k - 1) \o SubSeq(cards, k + 1, Len(cards))

\* Mutant of DeckPlay: the card is returned and left in the deck
DeckPlay_KeepCard(cards, card) ==
    IF \A i \in 1..Len(cards) : cards[i] # card
    THEN [err |-> "ValueError", ret |-> None, cards |-> cards]
    ELSE [err |-> "ok", ret |-> Some(card), cards |-> cards]

\* Deck.play
DeckPlay(cards, card) ==
    IF \A i \in 1..Len(cards) : cards[i] # card
    THEN [err |-> "ValueError", ret |-> None, cards |-> cards]
    ELSE [err |-> "ok", ret |-> Some(card), cards |-> Remove(cards, card)]

\* ------------------------------------------------------------------ Player
\* Mutant of PlayFound: a hand that becomes empty is given up (no Deck)
PlayFound_DropEmpty(d, smallest_playable_card) ==
    IF smallest_playable_card = None
    THEN [err |-> "ok", ret |-> None, deck |-> d]
    ELSE [err |-> DeckPlay(d[1], smallest_playable_card[1]).err,
          ret |-> DeckPlay(d[1], smallest_playable_card[1]).ret,
          deck |-> IF DeckPlay(d[1], smallest_playable_card[1]).cards = <<>>
                   THEN None
                   ELSE Some(DeckPlay(d[1], smallest_playable_card[1]).cards)]

\* Player.play once the smallest playable card is looked up
PlayFound(d, smallest_playable_card) ==
    IF smallest_playable_card = None
    THEN [err |-> "ok", ret |-> None, deck |-> d]
    ELSE [err |-> DeckPlay(d[1], smallest_playable_card[1]).err,
          ret |-> DeckPlay(d[1], smallest_playable_card[1]).ret,
          deck |-> Some(DeckPlay(d[1], smallest_playable_card[1]).cards)]

\* Player.play on the player's optional Deck d
PlayerPlay(d, last_card) ==
    IF d = None THEN [err |-> "ValueError", ret |-> None, deck |-> d]
    ELSE PlayFound(d, GetSmallestCard(d[1], IF last_card = None THEN 0
                                            ELSE last_card[1].sort_index))

\* Player.has_card
HasCard(d) == IF d # None THEN Len(d[1]) > 0 ELSE FALSE

\* ------------------------------------------------------------------ SimpleBig2
\* deal_cards from player i on: each player draws MAX_CARDS_PER_PLAYER cards
\* and is dealt them in order; a failed draw ends the deal where it stands;
\* the final assert compares what is left with 52 - players * 12.
RECURSIVE DealCards(_, _, _, _)
\* the loop body, with player i's draw made
DealDrawn(stock, roster, decks, i, d) ==
    IF d.err # "ok"
    THEN [err |-> d.err, poker |-> stock, deck |-> decks]
    ELSE DealCards(d.cards, roster, [decks EXCEPT ![roster[i]] = Some(Order(d.drawn))], i + 1)

DealCards(stock, roster, decks, i) ==
    IF i > Len(roster)
    THEN [err |-> IF Len(stock) = FULL_DECK_SIZE - Len(roster) * MAX_CARDS_PER_PLAYER
                  THEN "ok" ELSE "AssertionError",
          poker |-> stock, deck |-> decks]
    ELSE DealDrawn(stock, roster, decks, i, Draw(stock, MAX_CARDS_PER_PLAYER))

\* determine_starting_player from player i on, with the loop's smallest_card
\* and starting_player.  A player without a Deck raises AttributeError; a
\* comparison of a card with None raises TypeError.
RECURSIVE DetermineStartingPlayer(_, _, _, _, _)
\* the loop body, with player i's smallest card looked up
StartingPlayerStep(roster, decks, i, smallest_card, starting_player, player_smallest_card) ==
    IF smallest_card = None
    THEN DetermineStartingPlayer(roster, decks, i + 1, player_smallest_card, Some(roster[i]))
    ELSE IF player_smallest_card = None
    THEN [err |-> "TypeError", player |-> None]
    ELSE IF CardLess(player_smallest_card[1], smallest_card[1])
    THEN DetermineStartingPlayer(roster, decks, i + 1, player_smallest_card, Some(roster[i]))
    ELSE DetermineStartingPlayer(roster, decks, i + 1, smallest_card, starting_player)

DetermineStartingPlayer(roster, decks, i, smallest_card, starting_player) ==
    IF i > Len(roster) THEN [err |-> "ok", player |-> starting_player]
    ELSE IF decks[roster[i]] = None THEN [err |-> "AttributeError", player |-> None]
    ELSE StartingPlayerStep(roster, decks, i, smallest_card, starting_player,
                            GetSmallestCard(decks[roster[i]][1], 0))

\* rotate_players
RotatePlayers(roster, starting_player) ==
    SubSeq(roster, Index(roster, starting_player) + 1, Len(roster))
        \o SubSeq(roster, 1, Index(roster, starting_player))

\* setup once the cards are dealt and the starting player is determined
SetupRotate(roster, dealt, starting) ==
    IF starting.err # "ok"
    THEN [err |-> starting.err, poker |-> dealt.poker, deck |-> dealt.deck, players |-> roster]
    ELSE [err |-> "ok", poker |-> dealt.poker, deck |-> dealt.deck,
          players |-> RotatePlayers(roster, starting.player[1])]

\* setup once the cards are dealt
SetupDealt(roster, dealt) ==
    IF dealt.err # "ok"
    THEN [err |-> dealt.err, poker |-> dealt.poker, deck |-> dealt.deck, players |-> roster]
    ELSE SetupRotate(roster, dealt, DetermineStartingPlayer(roster, dealt.deck, 1, None, None))

\* setup after the shuffle left the stock as shuffled: deal, pick the starting
\* player, rotate.  An exception leaves what was done before it.
SetupFrom(shuffled, roster, decks) == SetupDealt(roster, DealCards(shuffled, roster, decks, 1))

\* Mutant of ResetLastPlayedCard: the card is never cleared
ResetLastPlayedCard_NoClear(player, card, last_player) == card

\* Mutant of ResetLastPlayedCard: the card is cleared at every turn
ResetLastPlayedCard_Always(player, card, last_player) == None

\* reset_last_played_card_if_all_players_passed: the card after the call
ResetLastPlayedCard(player, card, last_player) ==
    IF Some(player) = last_player THEN None ELSE card

\* Mutant of TurnOutcome: last_played_player is not updated
TurnOutcome_KeepPlayer(player, threshold, played, last_player) ==
    [err |-> played.err, arg |-> threshold, ret |-> played.ret, deck |-> played.deck,
     last_played_card |-> IF played.err = "ok" /\ played.ret # None
                          THEN played.ret ELSE threshold,
     last_played_player |-> last_player]

\* Mutant of TurnOutcome: the result of play is stored even when it is a pass
TurnOutcome_AlwaysStore(player, threshold, played, last_player) ==
    [err |-> played.err, arg |-> threshold, ret |-> played.ret, deck |-> played.deck,
     last_played_card |-> IF played.err = "ok" THEN played.ret ELSE threshold,
     last_played_player |-> IF played.err = "ok" /\ played.ret # None
                            THEN Some(player) ELSE last_player]

\* next_turn once the threshold is settled and the player has played against it
TurnOutcome(player, threshold, played, last_player) ==
    [err |-> played.err, arg |-> threshold, ret |-> played.ret, deck |-> played.deck,
     last_played_card |-> IF played.err = "ok" /\ played.ret # None
                          THEN played.ret ELSE threshold,
     last_played_player |-> IF played.err = "ok" /\ played.ret # None
                            THEN Some(player) ELSE last_player]

\* next_turn(player) on the player's optional Deck d
NextTurnOf(player, d, card, last_player) ==
    TurnOutcome(player, ResetLastPlayedCard(player, card, last_player),
                PlayerPlay(d, ResetLastPlayedCard(player, card, last_player)), last_player)

\* start's loop condition: all(player.has_card() for player in self.players)
AllHaveCard(roster, decks) == \A i \in 1..Len(roster) : HasCard(decks[roster[i]])

\* Mutant of Winner: the first player of the roster, empty-handed or not
Winner_First(roster, decks) == roster[1]

\* Mutant of Winner: the last player of the roster without a card
Winner_Last(roster, decks) ==
    roster[CHOOSE i \in 1..Len(roster) :
              /\ ~HasCard(decks[roster[i]])
              /\ \A j \in (i + 1)..Len(roster) : HasCard(decks[roster[j]])]

\* start's winner: the first player of the roster without a card
Winner(roster, decks) ==
    roster[Min({i \in 1..Len(roster) : ~HasCard(decks[roster[i]])})]

\* ------------------------------------------------------------------ state
VARIABLES
    poker,               \* SimpleBig2.poker.cards
    players,             \* SimpleBig2.players, as names in roster order
    deck,                \* Player.deck of each player: None or Some(cards)
    last_played_card,    \* None or Some(card)
    last_played_player,  \* None or Some(name)
    pc,                  \* "idle", or the place a running call has reached
    idx,                 \* start: the roster position of the for loop
    winner,              \* start: the winner it reported, None before
    last,                \* history: the last operation, its argument and result
    pre,                 \* history: the game as it was before the last operation
    plays,               \* history: cards played in this start() run
    passes,              \* history: turns of this run since its last played card
    played_cards         \* history: the cards played since the deck was new

vars == <<poker, players, deck, last_played_card, last_played_player, pc, idx, winner,
          last, pre, plays, passes, played_cards>>

game == [poker |-> poker, players |-> players, deck |-> deck,
         last_played_card |-> last_played_card, last_played_player |-> last_played_player]

\* A history record: the operation, the player it was for, the threshold it
\* played against, what it returned, how it ended, the operation before it
\* (setup only) and the number it was called with (draw only).
Op(op, player, arg, ret, err, after, number) ==
    [op |-> op, player |-> player, arg |-> arg, ret |-> ret, err |-> err,
     after |-> after, number |-> number]

Count(n) == IF n < CounterCap THEN n + 1 ELSE n

NoDecks == [n \in {Names[i] : i \in 1..Len(Names)} |-> None]

\* SimpleBig2(players), as game.py's __main__ and app.py construct it
Init ==
    /\ poker = NewDeck
    /\ players = Names
    /\ deck = NoDecks
    /\ last_played_card = None
    /\ last_played_player = None
    /\ pc = "idle"
    /\ idx = 0
    /\ winner = None
    /\ last = Op("init", None, None, <<>>, "ok", "", 0)
    /\ pre = game
    /\ plays = 0
    /\ passes = 0
    /\ played_cards = {}

\* setup()
Setup ==
    /\ pc = "idle"
    /\ \E f \in Permutations(1..Len(poker)) :
         \E r \in {SetupFrom(Shuffle(poker, f), players, deck)} :
             /\ poker' = r.poker
             /\ deck' = r.deck
             /\ players' = r.players
             /\ last' = Op("setup", None, None, <<>>, r.err, last.op, 0)
    /\ pre' = game
    /\ UNCHANGED <<last_played_card, last_played_player, pc, idx, winner, plays, passes,
                   played_cards>>

\* Mutant of ResetBegin: the stock is not replaced by a new deck
ResetBegin_KeepStock ==
    /\ pc = "idle"
    /\ last_played_card' = None
    /\ last_played_player' = None
    /\ deck' = [n \in DOMAIN deck |-> None]
    /\ pc' = "reset_setup"
    /\ pre' = [poker |-> poker, players |-> players, deck |-> [n \in DOMAIN deck |-> None],
               last_played_card |-> None, last_played_player |-> None]
    /\ last' = Op("reset_begin", None, None, <<>>, "ok", "", 0)
    /\ idx' = 0
    /\ winner' = None
    /\ plays' = 0
    /\ passes' = 0
    /\ played_cards' = {}
    /\ UNCHANGED <<players, poker>>

\* reset(), up to its call of setup().  The history starts anew: pre is the
\* game as setup() is about to find it.
ResetBegin ==
    /\ pc = "idle"
    /\ poker' = NewDeck
    /\ last_played_card' = None
    /\ last_played_player' = None
    /\ deck' = [n \in DOMAIN deck |-> None]
    /\ pc' = "reset_setup"
    /\ pre' = [poker |-> NewDeck, players |-> players, deck |-> [n \in DOMAIN deck |-> None],
               last_played_card |-> None, last_played_player |-> None]
    /\ last' = Op("reset_begin", None, None, <<>>, "ok", "", 0)
    /\ idx' = 0
    /\ winner' = None
    /\ plays' = 0
    /\ passes' = 0
    /\ played_cards' = {}
    /\ UNCHANGED players

\* reset(): its call of setup()
ResetSetup ==
    /\ pc = "reset_setup"
    /\ \E f \in Permutations(1..Len(poker)) :
         \E r \in {SetupFrom(Shuffle(poker, f), players, deck)} :
             /\ poker' = r.poker
             /\ deck' = r.deck
             /\ players' = r.players
             /\ last' = Op("reset", None, None, <<>>, r.err, "", 0)
    /\ pc' = "idle"
    /\ UNCHANGED <<last_played_card, last_played_player, idx, winner, pre, plays, passes,
                   played_cards>>

\* next_turn(player), called on its own
NextTurn(player) ==
    /\ pc = "idle"
    /\ \E r \in {NextTurnOf(player, deck[player], last_played_card, last_played_player)} :
           /\ deck' = [deck EXCEPT ![player] = r.deck]
           /\ last_played_card' = r.last_played_card
           /\ last_played_player' = r.last_played_player
           /\ last' = Op("next_turn", Some(player), r.arg, r.ret, r.err, "", 0)
           /\ played_cards' = played_cards \cup {r.ret[i] : i \in 1..Len(r.ret)}
    /\ pre' = game
    /\ UNCHANGED <<poker, players, pc, idx, winner, plays, passes>>

\* start() is called
StartCall ==
    /\ pc = "idle"
    /\ pc' = "start_while"
    /\ idx' = 0
    /\ winner' = None
    /\ plays' = 0
    /\ passes' = 0
    /\ pre' = game
    /\ last' = Op("start_call", None, None, <<>>, "ok", "", 0)
    /\ UNCHANGED <<poker, players, deck, last_played_card, last_played_player, played_cards>>

\* start(): the while condition; when it fails, the winner is reported
StartWhile ==
    /\ pc = "start_while"
    /\ IF AllHaveCard(players, deck)
       THEN /\ pc' = "start_for"
            /\ idx' = 1
            /\ UNCHANGED <<winner, last>>
       ELSE /\ pc' = "idle"
            /\ idx' = 0
            /\ winner' = Some(Winner(players, deck))
            /\ last' = Op("start", None, None, <<>>, "ok", "", 0)
    /\ UNCHANGED <<poker, players, deck, last_played_card, last_played_player, pre,
                   plays, passes, played_cards>>

\* Mutant of StartTurn: the pass is left as soon as the player of the turn
\* has no card
StartTurn_StopAtEmpty ==
    /\ pc = "start_for"
    /\ \E r \in {NextTurnOf(players[idx], deck[players[idx]], last_played_card,
                            last_played_player)} :
           /\ deck' = [deck EXCEPT ![players[idx]] = r.deck]
           /\ last_played_card' = r.last_played_card
           /\ last_played_player' = r.last_played_player
           /\ last' = Op(IF r.err = "ok" THEN "turn" ELSE "start", Some(players[idx]),
                         r.arg, r.ret, r.err, "", 0)
           /\ plays' = IF r.ret # None THEN Count(plays) ELSE plays
           /\ played_cards' = played_cards \cup {r.ret[i] : i \in 1..Len(r.ret)}
           /\ passes' = IF r.ret # None THEN 0 ELSE Count(passes)
           /\ IF r.err # "ok" THEN pc' = "idle" /\ idx' = 0
              ELSE IF idx < Len(players) /\ HasCard(r.deck)
              THEN pc' = "start_for" /\ idx' = idx + 1
              ELSE pc' = "start_while" /\ idx' = 0
    /\ pre' = game
    /\ UNCHANGED <<poker, players, winner>>

\* start(): one turn of the for loop, next_turn(players[idx]); an exception
\* of the turn ends start()
StartTurn ==
    /\ pc = "start_for"
    /\ \E r \in {NextTurnOf(players[idx], deck[players[idx]], last_played_card,
                            last_played_player)} :
           /\ deck' = [deck EXCEPT ![players[idx]] = r.deck]
           /\ last_played_card' = r.last_played_card
           /\ last_played_player' = r.last_played_player
           /\ last' = Op(IF r.err = "ok" THEN "turn" ELSE "start", Some(players[idx]),
                         r.arg, r.ret, r.err, "", 0)
           /\ plays' = IF r.ret # None THEN Count(plays) ELSE plays
           /\ played_cards' = played_cards \cup {r.ret[i] : i \in 1..Len(r.ret)}
           /\ passes' = IF r.ret # None THEN 0 ELSE Count(passes)
           /\ IF r.err # "ok" THEN pc' = "idle" /\ idx' = 0
              ELSE IF idx < Len(players) THEN pc' = "start_for" /\ idx' = idx + 1
              ELSE pc' = "start_while" /\ idx' = 0
    /\ pre' = game
    /\ UNCHANGED <<poker, players, winner>>

\* The game as game.py's __main__ and app.py's handlers drive it: setup(),
\* start() and reset(), one call at a time
Next == Setup \/ ResetBegin \/ ResetSetup \/ StartCall \/ StartWhile \/ StartTurn

Spec == Init /\ [][Next]_vars

\* The SimpleBig2 object with next_turn also called on its own
NextApi == Next \/ \E i \in 1..Len(players) : NextTurn(players[i])

SpecApi == Init /\ [][NextApi]_vars

\* Deck.draw on a deck of its own: any deck of at most MaxDeckLen distinct
\* cards, any number drawn
CardSet == {NewDeck[i] : i \in 1..Len(NewDeck)}

Decks ==
    {d \in UNION {[1..n -> CardSet] : n \in 0..MaxDeckLen} :
        \A i, j \in 1..Len(d) : i # j => d[i] # d[j]}

InitDeck ==
    /\ poker \in Decks
    /\ players = Names
    /\ deck = NoDecks
    /\ last_played_card = None
    /\ last_played_player = None
    /\ pc = "idle"
    /\ idx = 0
    /\ winner = None
    /\ last = Op("init", None, None, <<>>, "ok", "", 0)
    /\ pre = game
    /\ plays = 0
    /\ passes = 0
    /\ played_cards = {}

\* poker.draw(number)
DrawOp(number) ==
    /\ pc = "idle"
    /\ \E r \in {Draw(poker, number)} :
           /\ poker' = r.cards
           /\ last' = Op("draw", None, None, r.drawn, r.err, "", number)
    /\ pre' = game
    /\ UNCHANGED <<players, deck, last_played_card, last_played_player, pc, idx, winner,
                   plays, passes, played_cards>>

NextDeck == \E number \in 0..(MaxDeckLen + 1) : DrawOp(number)

SpecDeck == InitDeck /\ [][NextDeck]_vars

\* ------------------------------------------------------------------ app.py
\* A string is the sequence of its characters; the characters of a rank or
\* suit of RANKS and SUITS
Chars(s) == IF s = "10" THEN <<"1", "0">> ELSE <<s>>

\* Card.__str__: the rank followed by the suit
CardStr(card) == Chars(card.rank) \o <<card.suit>>

\* the "cards" entry of get_game_state for the optional Deck d: no Deck and
\* an empty Deck are both falsy and give the empty list
StateCards(d) ==
    IF d # None /\ Len(d[1]) > 0
    THEN [k \in 1..Len(d[1]) |-> CardStr(d[1][k])]
    ELSE <<>>

\* get_game_state: the state dictionary read from game g
GetGameState(g) ==
    [players |-> [i \in 1..Len(g.players) |->
                     [name |-> g.players[i],
                      cards |-> StateCards(g.deck[g.players[i]]),
                      has_card |-> HasCard(g.deck[g.players[i]])]],
     last_played_card |-> IF g.last_played_card # None
                          THEN Some(CardStr(g.last_played_card[1])) ELSE None,
     last_played_player |-> g.last_played_player]

\* play_card's parsing of the optional string card_str: card_str[:-1] and
\* card_str[-1] handed to Card, whose __post_init__ looks both up in RANKS
\* and SUITS; any exception is caught by the handler
ParseCard(card_str) ==
    IF card_str = None THEN [err |-> "TypeError", card |-> None]
    ELSE IF Len(card_str[1]) = 0 THEN [err |-> "IndexError", card |-> None]
    ELSE IF /\ \E i \in 1..Len(RANKS) :
                  Chars(RANKS[i]) = SubSeq(card_str[1], 1, Len(card_str[1]) - 1)
            /\ \E j \in 1..Len(SUITS) : SUITS[j] = card_str[1][Len(card_str[1])]
    THEN [err |-> "ok",
          card |-> Some(Card(RANKS[CHOOSE i \in 1..Len(RANKS) :
                                     Chars(RANKS[i]) = SubSeq(card_str[1], 1, Len(card_str[1]) - 1)],
                             card_str[1][Len(card_str[1])]))]
    ELSE [err |-> "ValueError", card |-> None]

\* play_card once the player is found, the card string parsed and the
\* player's play against game.last_played_card made
PlayCardPlayed(player_name, decks, card, last_player, played) ==
    IF played.err # "ok"
    THEN [err |-> played.err, status |-> 400, ret |-> None, deck |-> decks,
          last_played_card |-> card, last_played_player |-> last_player,
          body |-> <<"error", "Player's deck should not be empty">>]
    ELSE IF played.ret # None
    THEN [err |-> "ok", status |-> 200, ret |-> played.ret,
          deck |-> [decks EXCEPT ![player_name] = played.deck],
          last_played_card |-> played.ret, last_played_player |-> Some(player_name),
          body |-> <<"message", player_name, "played">> \o CardStr(played.ret[1])]
    ELSE [err |-> "ok", status |-> 200, ret |-> None,
          deck |-> [decks EXCEPT ![player_name] = played.deck],
          last_played_card |-> card, last_played_player |-> last_player,
          body |-> <<"message", player_name, "passed this turn">>]

\* Mutant of PlayCardOf: the card the request names is the card played
PlayCardOf_NamedCard(roster, decks, card, last_player, player_name, card_str) ==
    IF \A i \in 1..Len(roster) : roster[i] # player_name
    THEN [err |-> "NotFound", status |-> 404, ret |-> None, deck |-> decks,
          last_played_card |-> card, last_played_player |-> last_player,
          body |-> <<"error", "Player not found">>]
    ELSE IF ParseCard(card_str).err # "ok"
    THEN [err |-> "InvalidCard", status |-> 400, ret |-> None, deck |-> decks,
          last_played_card |-> card, last_played_player |-> last_player,
          body |-> <<"error", "Invalid card format">>]
    ELSE IF decks[player_name] = None
    THEN PlayCardPlayed(player_name, decks, card, last_player,
                        PlayerPlay(decks[player_name], card))
    ELSE PlayCardPlayed(player_name, decks, card, last_player,
                        [err |-> DeckPlay(decks[player_name][1], ParseCard(card_str).card[1]).err,
                         ret |-> DeckPlay(decks[player_name][1], ParseCard(card_str).card[1]).ret,
                         deck |-> Some(DeckPlay(decks[player_name][1],
                                                ParseCard(card_str).card[1]).cards)])

\* play_card
PlayCardOf(roster, decks, card, last_player, player_name, card_str) ==
    IF \A i \in 1..Len(roster) : roster[i] # player_name
    THEN [err |-> "NotFound", status |-> 404, ret |-> None, deck |-> decks,
          last_played_card |-> card, last_played_player |-> last_player,
          body |-> <<"error", "Player not found">>]
    ELSE IF ParseCard(card_str).err # "ok"
    THEN [err |-> "InvalidCard", status |-> 400, ret |-> None, deck |-> decks,
          last_played_card |-> card, last_played_player |-> last_player,
          body |-> <<"error", "Invalid card format">>]
    ELSE PlayCardPlayed(player_name, decks, card, last_player,
                        PlayerPlay(decks[player_name], card))

\* start() run to its end from the while condition (i = 0) or from the turn
\* of player i of the for loop; an exception of a turn ends the run
RECURSIVE RunStart(_, _, _, _, _, _)
\* the for loop's body, with the turn r of player i made; cards_played are
\* the cards the run has played (history)
RunStartTurn(roster, decks, i, r, cards_played) ==
    IF r.err # "ok"
    THEN [err |-> r.err, deck |-> [decks EXCEPT ![roster[i]] = r.deck],
          last_played_card |-> r.last_played_card,
          last_played_player |-> r.last_played_player, winner |-> None,
          cards_played |-> cards_played]
    ELSE RunStart(roster, [decks EXCEPT ![roster[i]] = r.deck], r.last_played_card,
                  r.last_played_player, IF i < Len(roster) THEN i + 1 ELSE 0,
                  cards_played \cup {r.ret[k] : k \in 1..Len(r.ret)})

RunStart(roster, decks, card, last_player, i, cards_played) ==
    IF i = 0
    THEN IF AllHaveCard(roster, decks)
         THEN RunStart(roster, decks, card, last_player, 1, cards_played)
         ELSE [err |-> "ok", deck |-> decks, last_played_card |-> card,
               last_played_player |-> last_player, winner |-> Some(Winner(roster, decks)),
               cards_played |-> cards_played]
    ELSE RunStartTurn(roster, decks, i,
                      NextTurnOf(roster[i], decks[roster[i]], card, last_player), cards_played)

\* The record of a request served by app.py: the history record of the game
\* operation it made, with the request's player_name and card and the
\* response's status and body
HttpOp(op, player_name, card_str, player, arg, ret, err, status, body) ==
    Op(op, player, arg, ret, err, "", 0)
        @@ [player_name |-> player_name, card |-> card_str, status |-> status, body |-> body]

\* app.py's module state: game = SimpleBig2(players); game.setup()
InitApp ==
    /\ \E f \in Permutations(1..Len(NewDeck)) :
         \E r \in {SetupFrom(Shuffle(NewDeck, f), Names, NoDecks)} :
             /\ poker = r.poker
             /\ deck = r.deck
             /\ players = r.players
    /\ last_played_card = None
    /\ last_played_player = None
    /\ pc = "idle"
    /\ idx = 0
    /\ winner = None
    /\ last = Op("setup", None, None, <<>>, "ok", "init", 0)
    /\ pre = [poker |-> NewDeck, players |-> Names, deck |-> NoDecks,
              last_played_card |-> None, last_played_player |-> None]
    /\ plays = 0
    /\ passes = 0
    /\ played_cards = {}

\* GET /game-state
GetGameStateOp ==
    /\ pc = "idle"
    /\ last' = HttpOp("get_game_state", "", None, None, None, <<>>, "ok", 200,
                      Some(GetGameState(game)))
    /\ pre' = game
    /\ UNCHANGED <<poker, players, deck, last_played_card, last_played_player, pc, idx,
                   winner, plays, passes, played_cards>>

\* POST /play with player_name and card
PlayCard(player_name, card_str) ==
    /\ pc = "idle"
    /\ \E r \in {PlayCardOf(players, deck, last_played_card, last_played_player,
                            player_name, card_str)} :
           /\ deck' = r.deck
           /\ last_played_card' = r.last_played_card
           /\ last_played_player' = r.last_played_player
           /\ last' = HttpOp("play_card", player_name, card_str,
                             IF r.err = "NotFound" THEN None ELSE Some(player_name),
                             last_played_card, r.ret, r.err, r.status, r.body)
           /\ played_cards' = played_cards \cup {r.ret[i] : i \in 1..Len(r.ret)}
    /\ pre' = game
    /\ UNCHANGED <<poker, players, pc, idx, winner, plays, passes>>

\* POST /start_game: game.start(), then game.get_game_state(), an attribute
\* SimpleBig2 does not have: AttributeError, answered with status 500
StartGame ==
    /\ pc = "idle"
    /\ \E r \in {RunStart(players, deck, last_played_card, last_played_player, 0, {})} :
           /\ deck' = r.deck
           /\ last_played_card' = r.last_played_card
           /\ last_played_player' = r.last_played_player
           /\ winner' = r.winner
           /\ last' = HttpOp("start_game", "", None, None, None, <<>>,
                             IF r.err = "ok" THEN "AttributeError" ELSE r.err, 500, <<>>)
           /\ played_cards' = played_cards \cup r.cards_played
    /\ pre' = game
    /\ UNCHANGED <<poker, players, pc, idx, plays, passes>>

\* POST /reset, up to reset()'s call of setup().  The history starts anew,
\* as it does in ResetBegin.
ResetGameBegin ==
    /\ pc = "idle"
    /\ poker' = NewDeck
    /\ last_played_card' = None
    /\ last_played_player' = None
    /\ deck' = [n \in DOMAIN deck |-> None]
    /\ pc' = "reset_game_setup"
    /\ pre' = [poker |-> NewDeck, players |-> players, deck |-> [n \in DOMAIN deck |-> None],
               last_played_card |-> None, last_played_player |-> None]
    /\ last' = Op("reset_game_begin", None, None, <<>>, "ok", "", 0)
    /\ idx' = 0
    /\ winner' = None
    /\ plays' = 0
    /\ passes' = 0
    /\ played_cards' = {}
    /\ UNCHANGED players

\* POST /reset: reset()'s call of setup(), then game.get_game_state():
\* AttributeError, answered with status 500
ResetGameSetup ==
    /\ pc = "reset_game_setup"
    /\ \E f \in Permutations(1..Len(poker)) :
         \E r \in {SetupFrom(Shuffle(poker, f), players, deck)} :
             /\ poker' = r.poker
             /\ deck' = r.deck
             /\ players' = r.players
             /\ last' = HttpOp("reset_game", "", None, None, None, <<>>,
                               IF r.err = "ok" THEN "AttributeError" ELSE r.err, 500, <<>>)
    /\ pc' = "idle"
    /\ UNCHANGED <<last_played_card, last_played_player, idx, winner, pre, plays, passes,
                   played_cards>>

\* the card strings a request may carry: none, the empty string, an unknown
\* rank, an unknown suit, and every card of the deck
CardStrs ==
    {None, Some(<<>>), Some(<<"x", "d">>), Some(<<"3", "x">>)}
        \cup {Some(CardStr(NewDeck[i])) : i \in 1..Len(NewDeck)}

\* the names a request may carry: the players' and a stranger's
PlayerNames == {Names[i] : i \in 1..Len(Names)} \cup {"Eve"}

\* The game as app.py's handlers drive it
NextApp ==
    \/ GetGameStateOp
    \/ \E player_name \in PlayerNames : \E card_str \in CardStrs : PlayCard(player_name, card_str)
    \/ StartGame
    \/ ResetGameBegin
    \/ ResetGameSetup

SpecApp == InitApp /\ [][NextApp]_vars

\* The game after setup() with turns made in every way the program offers:
\* next_turn on its own, start(), and play_card
NextPlay ==
    \/ \E i \in 1..Len(players) : NextTurn(players[i])
    \/ StartCall
    \/ StartWhile
    \/ StartTurn
    \/ \E player_name \in PlayerNames : \E card_str \in CardStrs : PlayCard(player_name, card_str)

SpecPlay == InitApp /\ [][NextPlay]_vars

\* ------------------------------------------------------------------ claims
\* next_turn returned normally, on its own or as a turn of start()
TurnDone == last.op \in {"next_turn", "turn"} /\ last.err = "ok"

\* every player holds a Deck in game g
AllDealt(g) == \A p \in DOMAIN g.deck : g.deck[p] # None

Ascending(cards) ==
    \A i, j \in 1..Len(cards) : i < j => cards[i].sort_index < cards[j].sort_index

WithoutAt(cards, i) == SubSeq(cards, 1, i - 1) \o SubSeq(cards, i + 1, Len(cards))

\* the Dealt state: every player holds MAX_CARDS_PER_PLAYER ascending cards,
\* the stock holds the rest of the deck
Dealt ==
    /\ \A p \in DOMAIN deck :
         /\ deck[p] # None
         /\ Len(deck[p][1]) = MAX_CARDS_PER_PLAYER
         /\ Ascending(deck[p][1])
    /\ Len(poker) = FULL_DECK_SIZE - NumPlayers * MAX_CARDS_PER_PLAYER

\* the hands and the stock hold every card of the deck once
FullRound ==
    /\ AllDealt(game)
    /\ \A c \in CardSet :
         Cardinality({i \in 1..Len(poker) : poker[i] = c})
           + Cardinality({<<p, i>> \in (DOMAIN deck) \X (1..FULL_DECK_SIZE) :
                            i <= Len(deck[p][1]) /\ deck[p][1][i] = c}) = 1

\* C1: Player.play with an absent last_played_card, on a non-empty hand,
\* returns the card of smallest ordinal of the hand and removes exactly it.
C1_PlayReturnsSmallest ==
    \A p \in DOMAIN deck :
        (/\ TurnDone
         /\ last.player = Some(p)
         /\ last.arg = None
         /\ pre.deck[p] # None
         /\ Len(pre.deck[p][1]) > 0)
        => \E i \in 1..Len(pre.deck[p][1]) :
              /\ \A j \in 1..Len(pre.deck[p][1]) :
                    pre.deck[p][1][i].sort_index <= pre.deck[p][1][j].sort_index
              /\ last.ret = Some(pre.deck[p][1][i])
              /\ deck[p] = Some(WithoutAt(pre.deck[p][1], i))

\* C2: after setup(), the first player of the roster holds the card of
\* smallest ordinal among all dealt hands.
C2_StarterHoldsSmallest ==
    (last.op \in {"setup", "reset"} /\ last.err = "ok")
    => \E k \in 1..Len(deck[players[1]][1]) :
          \A p \in DOMAIN deck : \A i \in 1..Len(deck[p][1]) :
              deck[players[1]][1][k].sort_index <= deck[p][1][i].sort_index

\* C3, as claimed: next_turn(player) with player = last_played_player clears
\* last_played_card and last_played_player; if the player then passes, both
\* are absent afterwards.
C3_ClearsCardAndPlayer ==
    (TurnDone /\ last.player = pre.last_played_player /\ last.ret = None)
    => (last_played_card = None /\ last_played_player = None)

\* C3, amended: next_turn(player) with player = last_played_player clears
\* last_played_card alone before the play is resolved, so the play runs
\* against an absent threshold; if the player then passes, last_played_card is
\* absent afterwards and last_played_player is still that player.
C3_ClearsCardOnly ==
    (TurnDone /\ last.player = pre.last_played_player)
    => /\ last.arg = None
       /\ last.ret = None =>
            (last_played_card = None /\ last_played_player = pre.last_played_player)

C3_Witness ==
    /\ TurnDone
    /\ last.player = pre.last_played_player
    /\ pre.last_played_card # None
    /\ last.ret = None
    /\ last_played_card = None
    /\ last_played_player = last.player

\* C4: start() terminates.  Within a run of start() at most NumPlayers turns
\* in a row play no card (so the loop cannot go on without a card being
\* played) and at most NumPlayers * MAX_CARDS_PER_PLAYER cards are played.
C4_StartTerminates ==
    /\ passes <= NumPlayers
    /\ plays <= NumPlayers * MAX_CARDS_PER_PLAYER

C4_Witness == last.op = "start" /\ AllDealt(game) /\ plays >= MAX_CARDS_PER_PLAYER

\* C5: when start() ends after a deal, some player's hand is empty and the
\* reported winner is the first player of the roster whose hand is empty.
C5_WinnerFirstEmpty ==
    (last.op = "start" /\ last.err = "ok" /\ AllDealt(game))
    => \E i \in 1..Len(players) :
          /\ deck[players[i]] = Some(<<>>)
          /\ \A j \in 1..(i - 1) : Len(deck[players[j]][1]) > 0
          /\ winner = Some(players[i])

C5_Witness ==
    /\ last.op = "start"
    /\ AllDealt(game)
    /\ plays > 0
    /\ winner # None
    /\ winner # Some(players[1])

\* C6: after setup() on a freshly constructed game, whatever the shuffle,
\* every player holds exactly MAX_CARDS_PER_PLAYER cards in ascending order
\* and the stock holds the remaining cards of the deck.
C6_DealInvariant == (last.op = "setup" /\ last.after = "init") => (last.err = "ok" /\ Dealt)

C6_Witness ==
    /\ last.op = "setup"
    /\ last.after = "init"
    /\ Dealt
    /\ players # Names

\* C7: reset() in any state succeeds and leaves a Dealt game of the same
\* players: new hands of MAX_CARDS_PER_PLAYER ascending cards out of a full
\* new deck, the rest in the stock, no last played card or player.
C7_ResetDeals ==
    (last.op = "reset")
    => /\ last.err = "ok"
       /\ Dealt
       /\ FullRound
       /\ last_played_card = None
       /\ last_played_player = None
       /\ Len(players) = Len(pre.players)
       /\ {players[i] : i \in 1..Len(players)} = {pre.players[i] : i \in 1..Len(pre.players)}

C7_Witness == last.op = "reset" /\ last.err = "ok" /\ Dealt /\ players # pre.players

\* C8, as claimed: setup() on a Finished game (start() has ended after a
\* deal) takes the game to Dealt.
C8_SetupAfterRoundDeals ==
    (last.op = "setup" /\ last.after = "start" /\ AllDealt(pre))
    => (last.err = "ok" /\ Dealt)

\* C8, amended: setup() on a Finished game fails and does not reach Dealt:
\* the stock holds only the cards the deal left over; when these are fewer
\* than one hand, Deck.draw raises ValueError for the first player and hands
\* and seating stay as the round left them.
C8_SetupAfterRoundFails ==
    (last.op = "setup" /\ last.after = "start" /\ AllDealt(pre))
    => /\ last.err # "ok"
       /\ Len(pre.poker) < MAX_CARDS_PER_PLAYER =>
            (last.err = "ValueError" /\ deck = pre.deck /\ players = pre.players
             /\ Len(poker) = Len(pre.poker))

C8_Witness ==
    /\ last.op = "setup"
    /\ last.after = "start"
    /\ AllDealt(pre)
    /\ Len(pre.poker) < MAX_CARDS_PER_PLAYER
    /\ last.err = "ValueError"
    /\ \E p \in DOMAIN deck : deck[p] = Some(<<>>)

\* the player of the last turn had a hand with no card above the last
\* played card, and was not the last played player
MustPass(p) ==
    /\ TurnDone
    /\ last.player = Some(p)
    /\ pre.last_played_player # Some(p)
    /\ pre.last_played_card # None
    /\ pre.deck[p] # None
    /\ \A i \in 1..Len(pre.deck[p][1]) :
          pre.deck[p][1][i].sort_index <= pre.last_played_card[1].sort_index

\* C9: next_turn for a player who is not last_played_player and has no card
\* above last_played_card is a pass that changes nothing of the game.
C9_PassChangesNothing ==
    \A p \in DOMAIN deck : MustPass(p) => (last.ret = None /\ game = pre)

C9_Witness == \E p \in DOMAIN deck : MustPass(p) /\ Len(pre.deck[p][1]) > 0 /\ game = pre

\* C10: Deck.draw(n) with 0 <= n <= count returns the first n cards and
\* leaves the others, count - n of them; with n > count it fails and leaves
\* the cards as they were.
C10_Draw ==
    (last.op = "draw")
    => IF last.number <= Len(pre.poker)
       THEN /\ last.err = "ok"
            /\ Len(last.ret) = last.number
            /\ \A i \in 1..last.number : last.ret[i] = pre.poker[i]
            /\ Len(poker) = Len(pre.poker) - last.number
            /\ last.ret \o poker = pre.poker
       ELSE /\ last.err = "ValueError"
            /\ poker = pre.poker

C10_Witness ==
    /\ last.op = "draw"
    /\ last.err = "ok"
    /\ last.number > 0
    /\ last.number < Len(pre.poker)

\* a turn of player p, ended normally or not, on its own or within start()
TurnOf(p) == last.op \in {"next_turn", "turn", "start"} /\ last.player = Some(p)

\* C11, as claimed: when a play removes a player's last card the player
\* holds no Deck afterwards (the state discard_all_cards produces).
C11_NoDeckAfterLastCard ==
    \A p \in DOMAIN deck :
        (/\ TurnOf(p)
         /\ pre.deck[p] # None
         /\ Len(pre.deck[p][1]) = 1
         /\ last.ret # None)
        => deck[p] = None

\* C11, amended: a play never takes the Deck away.  When it removes the
\* player's last card the player holds an empty Deck (has_card is false), and
\* a later turn of that player ends normally as a pass that leaves the hands
\* as they were.
C11_EmptyDeckKept ==
    \A p \in DOMAIN deck :
        (TurnOf(p) /\ pre.deck[p] # None)
        => /\ deck[p] # None
           /\ (Len(pre.deck[p][1]) = 1 /\ last.ret # None)
                => (deck[p] = Some(<<>>) /\ ~HasCard(deck[p]))
           /\ pre.deck[p] = Some(<<>>)
                => (last.err = "ok" /\ last.ret = None /\ deck = pre.deck)

C11_Witness ==
    \E p \in DOMAIN deck :
        /\ TurnOf(p)
        /\ pre.deck[p] = Some(<<>>)
        /\ last.err = "ok"
        /\ last.ret = None
        /\ deck[p] = Some(<<>>)

\* C12: start_game and reset_game end without error and answer with the
\* state get_game_state reads from the game as start(), respectively reset(),
\* left it.
C12_TransportReturnsState ==
    (last.op \in {"start_game", "reset_game"})
    => /\ last.err = "ok"
       /\ last.status = 200
       /\ last.body = Some(GetGameState(game))

\* C13: the cards of a full new deck (the stock as the constructor and
\* reset() make it) carry the ordinals rank_index * NumSuits + suit_index,
\* which are pairwise distinct and are exactly 0 .. NumRanks * NumSuits - 1.
C13_OrdinalsTotal ==
    (last.op \in {"init", "reset_begin"})
    => /\ Len(poker) = NumRanks * NumSuits
       /\ \A i \in 1..Len(poker) :
             poker[i].sort_index
               = Index(RANKS, poker[i].rank) * NumSuits + Index(SUITS, poker[i].suit)
       /\ \A i, j \in 1..Len(poker) : i # j => poker[i].sort_index # poker[j].sort_index
       /\ {poker[i].sort_index : i \in 1..Len(poker)} = 0..(NumRanks * NumSuits - 1)

C13_Witness ==
    /\ last.op = "reset_begin"
    /\ Len(poker) = NumRanks * NumSuits
    /\ poker[1].sort_index = 0
    /\ poker[Len(poker)].sort_index = NumRanks * NumSuits - 1

\* C14: start() looks at the hands only between full passes over the roster.
\* After the turn of any player but the last of the roster the next player's
\* turn is due, whether or not a hand is empty by then; the while condition
\* is met only with the call and after the turn of the last player.
C14_PassCompletes ==
    /\ (last.op = "turn" /\ Index(players, last.player[1]) + 1 < Len(players))
         => (pc = "start_for" /\ idx = Index(players, last.player[1]) + 2)
    /\ (pc = "start_for" /\ idx > 1)
         => (last.op = "turn" /\ last.player = Some(players[idx - 1]))
    /\ (pc = "start_while")
         => \/ last.op = "start_call"
            \/ last.op = "turn" /\ last.player = Some(players[Len(players)])

\* a player of the roster played a card in the pass in which an earlier
\* player's hand had become empty
C14_Witness ==
    /\ last.op = "turn"
    /\ last.ret # None
    /\ last_played_card = last.ret
    /\ last_played_player = last.player
    /\ \E j \in 1..Len(players) :
          /\ j < Index(players, last.player[1]) + 1
          /\ pre.deck[players[j]] = Some(<<>>)

\* C15: in a run of start(), a last played card of that run (from a fresh
\* deal every last played card is one) is cleared only at a turn of the
\* player who played it, and when that turn is due every other player of the
\* roster has had one turn since the play and passed: the Len(players) - 1
\* turns since the play were all passes.
C15_ClearedAfterAllPassed ==
    /\ (last.op = "turn" /\ last.ret # None)
         => (last_played_card = last.ret /\ last_played_player = last.player)
    /\ (last.op = "turn" /\ last.ret = None /\ last.arg # None)
         => (/\ last_played_card = pre.last_played_card
             /\ last_played_player = pre.last_played_player
             /\ last_played_player # last.player)
    /\ (last.op = "turn" /\ pre.last_played_card # None /\ last.arg = None)
         => (/\ last.player = pre.last_played_player
             /\ last.ret = None => passes = Len(players))
    /\ (/\ pc = "start_for"
        /\ plays > 0
        /\ last_played_card # None
        /\ last_played_player = Some(players[idx]))
         => passes = Len(players) - 1

\* the card a player played was cleared at that player's next turn, after
\* the other players passed, and the player played again
C15_Witness ==
    /\ last.op = "turn"
    /\ pre.last_played_card # None
    /\ last.arg = None
    /\ last.player = pre.last_played_player
    /\ last.ret # None
    /\ plays > 1

\* the cards in the hands of game g
RECURSIVE InHands(_, _)
InHands(g, i) ==
    IF i > Len(g.players) THEN 0
    ELSE Len(g.deck[g.players[i]][1]) + InHands(g, i + 1)

\* start() has ended normally and its run began from a well-formed deal:
\* the stock is what the deal left and the cards played in the run and the
\* cards in the hands make up NumPlayers full hands
RoundEnded ==
    /\ last.op = "start"
    /\ last.err = "ok"
    /\ AllDealt(game)
    /\ Len(poker) = FULL_DECK_SIZE - NumPlayers * MAX_CARDS_PER_PLAYER
    /\ plays + InHands(game, 1) = NumPlayers * MAX_CARDS_PER_PLAYER

EmptyHanded == {p \in DOMAIN deck : deck[p] = Some(<<>>)}

\* C16, as claimed: when a run of start() from a well-formed deal ends, at
\* most one player has an empty hand.
C16_AtMostOneEmpty == RoundEnded => Cardinality(EmptyHanded) <= 1

\* C16, amended: when a run of start() from a well-formed deal ends, at
\* least one player has an empty hand and several may (each played the last
\* card of the hand in the final pass); the winner reported is the first of
\* them in roster order, and no player is reported but an empty-handed one.
C16_FirstOfSeveralEmpty ==
    RoundEnded
    => /\ Cardinality(EmptyHanded) >= 1
       /\ winner # None
       /\ winner[1] \in EmptyHanded
       /\ \A i, j \in 1..Len(players) :
             (i < j /\ players[j] = winner[1]) => players[i] \notin EmptyHanded

C16_Witness ==
    /\ RoundEnded
    /\ Cardinality(EmptyHanded) > 1
    /\ winner = Some(players[1])
    /\ last_played_player # winner

\* the cards of a sequence of cards, and of a player's hand in game g
CardsOf(cards) == {cards[i] : i \in 1..Len(cards)}

HandOf(g, p) == CardsOf(g.deck[p][1])

\* a turn was made: by next_turn, within start(), or by play_card
TurnMade == last.op \in {"next_turn", "turn", "play_card"}

\* C17: card conservation.  After setup() and any turns, the stock, the
\* hands and the cards played hold no card twice, are pairwise disjoint and
\* together are the full deck of NumRanks * NumSuits distinct cards; a turn
\* leaves the stock and every other hand as they were, takes from the acting
\* player's hand the card it returns and no other, and no hand grows.
C17_CardConservation ==
    /\ AllDealt(game)
    /\ Cardinality(CardSet) = NumRanks * NumSuits
    /\ Cardinality(CardsOf(poker)) = Len(poker)
    /\ \A p \in DOMAIN deck :
          /\ Cardinality(HandOf(game, p)) = Len(deck[p][1])
          /\ HandOf(game, p) \cap CardsOf(poker) = {}
          /\ HandOf(game, p) \cap played_cards = {}
          /\ \A q \in DOMAIN deck : p # q => HandOf(game, p) \cap HandOf(game, q) = {}
    /\ CardsOf(poker) \cap played_cards = {}
    /\ CardsOf(poker) \cup played_cards \cup UNION {HandOf(game, p) : p \in DOMAIN deck} = CardSet
    /\ TurnMade
         => /\ poker = pre.poker
            /\ \A p \in DOMAIN deck :
                  /\ Len(deck[p][1]) <= Len(pre.deck[p][1])
                  /\ Some(p) # last.player => deck[p] = pre.deck[p]
                  /\ Some(p) = last.player =>
                       IF last.ret = None
                       THEN deck[p] = pre.deck[p]
                       ELSE /\ Len(deck[p][1]) = Len(pre.deck[p][1]) - 1
                            /\ HandOf(game, p) = HandOf(pre, p) \ {last.ret[1]}
                            /\ last.ret[1] \in HandOf(pre, p)
                            /\ last.ret[1] \in played_cards

\* cards were played by next_turn or start() and then by play_card, and a
\* hand is empty
C17_Witness ==
    /\ last.op = "play_card"
    /\ last.ret # None
    /\ Cardinality(played_cards) >= MAX_CARDS_PER_PLAYER + 1
    /\ \E p \in DOMAIN deck : deck[p] = Some(<<>>)
    /\ Len(poker) > 0

\* the last turn of start() was of player p, who was not last_played_player,
\* against a present last played card
Follows(p) ==
    /\ last.op = "turn"
    /\ last.player = Some(p)
    /\ pre.last_played_card # None
    /\ pre.last_played_player # Some(p)

\* C18: in start(), a card played by a player who is not last_played_player
\* against a present last_played_card is a card of the player's hand with an
\* ordinal greater than last_played_card's, and the smallest such card of the
\* hand; and at every turn that does not clear it, last_played_card stays
\* present and its ordinal grows with a play and stays with a pass.
C18_PlaysSmallestAbove ==
    /\ \A p \in DOMAIN deck :
          (Follows(p) /\ last.ret # None)
          => /\ last.ret[1] \in CardsOf(pre.deck[p][1])
             /\ last.ret[1].sort_index > pre.last_played_card[1].sort_index
             /\ \A c \in CardsOf(pre.deck[p][1]) :
                   c.sort_index > pre.last_played_card[1].sort_index
                     => last.ret[1].sort_index <= c.sort_index
    /\ (last.op = "turn" /\ last.arg # None)
          => /\ last.arg = pre.last_played_card
             /\ last_played_card # None
             /\ IF last.ret # None
                THEN last_played_card[1].sort_index > pre.last_played_card[1].sort_index
                ELSE last_played_card = pre.last_played_card

\* a player followed with the smaller of two cards above the last played card
C18_Witness ==
    \E p \in DOMAIN deck :
        /\ Follows(p)
        /\ last.ret # None
        /\ \E c \in CardsOf(pre.deck[p][1]) : c.sort_index > last.ret[1].sort_index
        /\ last_played_card = last.ret

\* the card of ordinal 0, the first card of a new deck
LowestCard == Card(RANKS[1], SUITS[1])

Playable(p) ==
    {c \in HandOf(pre, p) :
        c.sort_index > (IF pre.last_played_card = None THEN 0
                        ELSE pre.last_played_card[1].sort_index)}

\* play_card was called for a player of the roster with a well-formed card
WellFormedPlay(p) ==
    /\ last.op = "play_card"
    /\ last.player_name = p
    /\ \E i \in 1..Len(pre.players) : pre.players[i] = p
    /\ \E c \in CardSet : last.card = Some(CardStr(c))

====
